---- MODULE Spec2Model ----
(***************************************************************************)
(* Model of valuecell/utils/logger.py: get_log_dir, setup_logger and       *)
(* get_logger, together with the parts of the logging backend's sink       *)
(* registry and of the filesystem that setup_logger acts on.               *)
(*                                                                         *)
(* Strings that the code converts (paths, level names) are tuples of       *)
(* one-character strings, so that Path(...) and str.upper() are computed.  *)
(* Strings that the code only passes on (rotation, retention, compression) *)
(* are plain strings.                                                      *)
(***************************************************************************)
EXTENDS Integers, Sequences, FiniteSets, TLC

VARIABLES env, system_env_dir, fs, unwritable, handlers, pc, outcome, callNo,
          args, log_level, rotation, retention, log_dir, emitted, probe

vars == <<env, system_env_dir, fs, unwritable, handlers, pc, outcome, callNo,
          args, log_level, rotation, retention, log_dir, emitted, probe>>

(* ---------------------------------------------------------------------- *)
(* Bounds                                                                  *)
(* ---------------------------------------------------------------------- *)
MaxCalls == 2
MaxPathLen == 3

(* ---------------------------------------------------------------------- *)
(* Paths: pathlib.Path on a POSIX system                                   *)
(* ---------------------------------------------------------------------- *)
None == <<>>

PathChars == {"/", ".", "a"}

RECURSIVE SplitFrom(_, _, _)
\* s.split("/") from position i on, cur being the segment read so far
SplitFrom(s, i, cur) ==
    IF i > Len(s) THEN <<cur>>
    ELSE IF s[i] = "/" THEN <<cur>> \o SplitFrom(s, i + 1, <<>>)
    ELSE SplitFrom(s, i + 1, Append(cur, s[i]))

Split(s) == SplitFrom(s, 1, <<>>)

RECURSIVE DropNoise(_)
\* the components pathlib keeps: empty and "." segments are dropped
DropNoise(segs) ==
    IF segs = <<>> THEN <<>>
    ELSE IF Head(segs) = <<>> \/ Head(segs) = <<".">> THEN DropNoise(Tail(segs))
    ELSE <<Head(segs)>> \o DropNoise(Tail(segs))

\* the root pathlib parses: exactly two leading slashes are kept, any other
\* number of leading slashes is one
RootOf(s) ==
    IF Len(s) >= 1 /\ s[1] = "/"
    THEN IF Len(s) >= 2 /\ s[2] = "/" /\ (Len(s) = 2 \/ s[3] # "/")
         THEN <<"/", "/">> ELSE <<"/">>
    ELSE <<>>

\* Path(s)
Path(s) == [root |-> RootOf(s), parts |-> DropNoise(Split(s))]

RECURSIVE JoinParts(_)
JoinParts(parts) ==
    IF parts = <<>> THEN <<>>
    ELSE IF Len(parts) = 1 THEN Head(parts)
    ELSE Head(parts) \o <<"/">> \o JoinParts(Tail(parts))

\* str(p)
Str(p) ==
    IF p.root = <<>> /\ p.parts = <<>> THEN <<".">>
    ELSE p.root \o JoinParts(p.parts)

\* p / name
Div(p, name) == [root |-> p.root, parts |-> Append(p.parts, name)]

Logs == <<"l", "o", "g", "s">>

(* ---------------------------------------------------------------------- *)
(* Environment: os.environ as a function on the names that are set         *)
(* ---------------------------------------------------------------------- *)
GetenvFalsy(e, name, default) ==
    IF name \in DOMAIN e /\ Len(e[name]) > 0 THEN e[name] ELSE default

\* os.getenv(name, default): the variable's value whenever it is set, even
\* to the empty string
Getenv(e, name, default) ==
    IF name \in DOMAIN e THEN e[name] ELSE default

\* Python truthiness of os.getenv(name): None (unset) and "" are falsy
Truthy(e, name) == name \in DOMAIN e /\ e[name] # <<>>

get_log_dir_any(e, sys) ==
    IF "LOG_DIR" \in DOMAIN e THEN Path(e["LOG_DIR"]) ELSE Div(sys, Logs)

\* get_log_dir(): LOG_DIR if it is set and non-empty, else <system env dir>/logs
get_log_dir(e, sys) ==
    IF Truthy(e, "LOG_DIR") THEN Path(e["LOG_DIR"]) ELSE Div(sys, Logs)

(* ---------------------------------------------------------------------- *)
(* Level names: str.upper() and the backend's level table                  *)
(* ---------------------------------------------------------------------- *)
LowerLetters == <<"a", "b", "c", "d", "e", "f", "g", "h", "i", "j", "k", "l", "m",
                  "n", "o", "p", "q", "r", "s", "t", "u", "v", "w", "x", "y", "z">>
UpperLetters == <<"A", "B", "C", "D", "E", "F", "G", "H", "I", "J", "K", "L", "M",
                  "N", "O", "P", "Q", "R", "S", "T", "U", "V", "W", "X", "Y", "Z">>

UpperChar(c) ==
    IF \E i \in DOMAIN LowerLetters : LowerLetters[i] = c
    THEN UpperLetters[CHOOSE i \in DOMAIN LowerLetters : LowerLetters[i] = c]
    ELSE c

\* s.upper()
Upper(s) == [i \in DOMAIN s |-> UpperChar(s[i])]

TRACE == <<"T", "R", "A", "C", "E">>
DEBUG == <<"D", "E", "B", "U", "G">>
INFO == <<"I", "N", "F", "O">>
SUCCESS == <<"S", "U", "C", "C", "E", "S", "S">>
WARNING == <<"W", "A", "R", "N", "I", "N", "G">>
ERROR == <<"E", "R", "R", "O", "R">>
CRITICAL == <<"C", "R", "I", "T", "I", "C", "A", "L">>

\* the level names the backend knows; any other name is rejected by add()
KnownLevels == {TRACE, DEBUG, INFO, SUCCESS, WARNING, ERROR, CRITICAL}

\* the severity the backend gives each level name
LevelNo(name) ==
    CASE name = TRACE -> 5
      [] name = DEBUG -> 10
      [] name = INFO -> 20
      [] name = SUCCESS -> 25
      [] name = WARNING -> 30
      [] name = ERROR -> 40
      [] name = CRITICAL -> 50

\* the rotation, retention and compression rules the backend can parse; add()
\* of a file sink rejects any other
RotationRules == {"10 MB", "1 day"}
RetentionRules == {"30 days", "7 days"}
CompressionFormats == {"zip", "gz"}

(* ---------------------------------------------------------------------- *)
(* Sinks                                                                   *)
(* ---------------------------------------------------------------------- *)
\* the handler the backend starts with, before any setup_logger() call
DefaultHandler ==
    [kind |-> "stderr", level |-> DEBUG, dir |-> None, rotation |-> "",
     retention |-> "", compression |-> "", enqueue |-> FALSE, call |-> 0]

\* logger.add(sys.stderr, level=log_level, colorize=True)
ConsoleSink ==
    [kind |-> "stderr", level |-> log_level, dir |-> None, rotation |-> "",
     retention |-> "", compression |-> "", enqueue |-> FALSE, call |-> callNo]

CombinedSinkAtInfo ==
    [kind |-> "valuecell", level |-> INFO, dir |-> log_dir,
     rotation |-> rotation, retention |-> retention,
     compression |-> args.compression, enqueue |-> TRUE, call |-> callNo]

\* logger.add(log_dir / "valuecell_{time:YYYY-MM-DD}.log", level="DEBUG", ...)
CombinedSink ==
    [kind |-> "valuecell", level |-> DEBUG, dir |-> log_dir,
     rotation |-> rotation, retention |-> retention,
     compression |-> args.compression, enqueue |-> TRUE, call |-> callNo]

ErrorSinkSameFile ==
    [kind |-> "valuecell", level |-> ERROR, dir |-> log_dir,
     rotation |-> rotation, retention |-> retention,
     compression |-> args.compression, enqueue |-> TRUE, call |-> callNo]

\* logger.add(log_dir / "error_{time:YYYY-MM-DD}.log", level="ERROR", ...)
ErrorSink ==
    [kind |-> "error", level |-> ERROR, dir |-> log_dir,
     rotation |-> rotation, retention |-> retention,
     compression |-> args.compression, enqueue |-> TRUE, call |-> callNo]

\* add() of a file sink parses the three rules and opens the file at once
FileSinkRejected(kind) ==
    \/ rotation \notin RotationRules
    \/ retention \notin RetentionRules
    \/ args.compression \notin CompressionFormats
    \/ kind \in unwritable

RemoveNothing(h) == h

\* logger.remove(): every registered handler is dropped
Remove(h) == <<>>

\* the handlers a record of level lvl is handed to
Deliver(h, lvl) ==
    {h[i] : i \in {j \in DOMAIN h : LevelNo(lvl) >= LevelNo(h[j].level)}}

(* ---------------------------------------------------------------------- *)
(* Inputs                                                                  *)
(* ---------------------------------------------------------------------- *)
\* the directories of the model's filesystem
DirA == Path(<<"/", "a">>)
DirB == Path(<<"/", "b">>)
SysDir == Path(<<"/", "s">>)
FsPaths == {DirA, DirB, Div(SysDir, Logs)}

\* what a path is when the process starts: nothing, a directory, or something
\* mkdir cannot turn into a directory (a regular file, a read-only parent);
\* a directory that mkdir makes later has status "created"
FsInit ==
    {f \in [FsPaths -> {"absent", "dir", "file"}] :
        Cardinality({p \in FsPaths : f[p] # "absent"}) <= 1}

\* the log files that cannot be opened for writing (the name is taken by a
\* directory, the file is read-only), here in a directory still to be made
UnwritableInit(f) ==
    IF \A p \in FsPaths : f[p] = "absent"
    THEN {{}, {"valuecell"}, {"error"}} ELSE {{}}

EnvValues ==
    [LOG_DIR : {<<"/", "a", "/">>},
     LOG_LEVEL : {<<>>, <<"d", "e", "b", "u", "g">>},
     LOG_ROTATION : {"1 day"},
     LOG_RETENTION : {"7 days"}]

\* os.environ: any of the four variables may be unset
EnvSet ==
    {[n \in D |-> v[n]] : v \in EnvValues,
                          D \in SUBSET {"LOG_DIR", "LOG_LEVEL", "LOG_ROTATION", "LOG_RETENTION"}}

\* the arguments callers pass to setup_logger()
ArgSet ==
    [log_level : {<<"i", "n", "f", "o">>, ERROR},
     log_dir : {None, <<DirB>>},
     rotation : {"10 MB"},
     retention : {"30 days"},
     compression : {"zip", "rar"},
     enable_console : BOOLEAN,
     enable_file : BOOLEAN]

\* the defaults of setup_logger's signature
DefaultArgs ==
    [log_level |-> INFO, log_dir |-> None, rotation |-> "10 MB",
     retention |-> "30 days", compression |-> "zip",
     enable_console |-> TRUE, enable_file |-> TRUE]

\* the levels other code logs at through get_logger()
ProbeLevels == {DEBUG, INFO, ERROR, CRITICAL}

(* ---------------------------------------------------------------------- *)
(* State machine                                                           *)
(* ---------------------------------------------------------------------- *)
Init ==
    /\ env \in EnvSet
    /\ system_env_dir = SysDir
    /\ fs \in FsInit
    /\ unwritable \in UnwritableInit(fs)
    /\ handlers = <<DefaultHandler>>
    /\ pc = "idle"
    /\ outcome = "none"
    /\ callNo = 0
    /\ args = DefaultArgs
    /\ log_level = DefaultArgs.log_level
    /\ rotation = DefaultArgs.rotation
    /\ retention = DefaultArgs.retention
    /\ log_dir = None
    /\ emitted = <<>>
    /\ probe = <<>>

RaiseSwallowed(step) ==
    /\ pc' = "debug"
    /\ outcome' = outcome

\* an exception leaves setup_logger at the given step: nothing catches it
Raise(step) ==
    /\ pc' = "idle"
    /\ outcome' = step

AfterConsoleDedented == IF args.enable_file THEN "resolve" ELSE "info"

\* line 69: the file block, which holds the INFO line, runs only if enable_file
AfterConsole == IF args.enable_file THEN "resolve" ELSE "debug"

ConsoleAlways == TRUE

\* line 60
ConsoleRequested == args.enable_console

ResolveEnvFirst ==
    IF Truthy(env, "LOG_DIR") \/ log_dir = None
    THEN <<get_log_dir(env, system_env_dir)>> ELSE log_dir

\* lines 71-72: the argument if one was passed, else get_log_dir()
ResolveLogDir ==
    IF log_dir = None THEN <<get_log_dir(env, system_env_dir)>> ELSE log_dir

IsDir(f, d) == f[d] \in {"dir", "created"}

\* log_dir.mkdir(...) raises when the path cannot become a directory
MkdirRaises(f, d) == f[d] = "file"

MkdirSkipped(f, d) == f

\* log_dir.mkdir(parents=True, exist_ok=True) where it does not raise:
\* exist_ok makes it a no-op on a directory that is already there
MkdirResult(f, d) == IF IsDir(f, d) THEN f ELSE [f EXCEPT ![d] = "created"]

\* setup_logger(...) is called: lines 52-57
Call(a) ==
    /\ pc = "idle"
    /\ callNo < MaxCalls
    /\ callNo' = callNo + 1
    /\ args' = a
    /\ log_level' = Upper(Getenv(env, "LOG_LEVEL", a.log_level))
    /\ rotation' = Getenv(env, "LOG_ROTATION", a.rotation)
    /\ retention' = Getenv(env, "LOG_RETENTION", a.retention)
    /\ log_dir' = a.log_dir
    /\ handlers' = Remove(handlers)
    /\ pc' = "console"
    /\ outcome' = "none"
    /\ emitted' = <<>>
    /\ probe' = <<>>
    /\ UNCHANGED <<env, system_env_dir, fs, unwritable>>

\* lines 60-66
AddConsole ==
    /\ pc = "console"
    /\ IF ConsoleRequested
       THEN IF log_level \in KnownLevels
            THEN /\ handlers' = Append(handlers, ConsoleSink)
                 /\ pc' = AfterConsole
                 /\ UNCHANGED outcome
            ELSE /\ Raise("raised_console")
                 /\ UNCHANGED handlers
       ELSE /\ pc' = AfterConsole
            /\ UNCHANGED <<handlers, outcome>>
    /\ UNCHANGED <<env, system_env_dir, fs, unwritable, callNo, args, log_level,
                   rotation, retention, log_dir, emitted, probe>>

\* lines 71-72
ResolveDir ==
    /\ pc = "resolve"
    /\ log_dir' = ResolveLogDir
    /\ pc' = "mkdir"
    /\ UNCHANGED <<env, system_env_dir, fs, unwritable, handlers, outcome, callNo,
                   args, log_level, rotation, retention, emitted, probe>>

\* line 75
Mkdir ==
    /\ pc = "mkdir"
    /\ IF MkdirRaises(fs, log_dir[1])
       THEN /\ Raise("raised_mkdir")
            /\ UNCHANGED fs
       ELSE /\ fs' = MkdirResult(fs, log_dir[1])
            /\ pc' = "combined"
            /\ UNCHANGED outcome
    /\ UNCHANGED <<env, system_env_dir, unwritable, handlers, callNo, args,
                   log_level, rotation, retention, log_dir, emitted, probe>>

\* lines 78-87
AddCombined ==
    /\ pc = "combined"
    /\ IF FileSinkRejected("valuecell")
       THEN /\ Raise("raised_combined")
            /\ UNCHANGED handlers
       ELSE /\ handlers' = Append(handlers, CombinedSink)
            /\ pc' = "error"
            /\ UNCHANGED outcome
    /\ UNCHANGED <<env, system_env_dir, fs, unwritable, callNo, args, log_level,
                   rotation, retention, log_dir, emitted, probe>>

\* lines 90-101
AddError ==
    /\ pc = "error"
    /\ IF FileSinkRejected("error")
       THEN /\ Raise("raised_error")
            /\ UNCHANGED handlers
       ELSE /\ handlers' = Append(handlers, ErrorSink)
            /\ pc' = "info"
            /\ UNCHANGED outcome
    /\ UNCHANGED <<env, system_env_dir, fs, unwritable, callNo, args, log_level,
                   rotation, retention, log_dir, emitted, probe>>

\* line 103: logger.info(...)
LogInfo ==
    /\ pc = "info"
    /\ emitted' = Append(emitted, [level |-> INFO, to |-> Deliver(handlers, INFO)])
    /\ pc' = "debug"
    /\ UNCHANGED <<env, system_env_dir, fs, unwritable, handlers, outcome, callNo,
                   args, log_level, rotation, retention, log_dir, probe>>

\* line 105: logger.debug(...), then the function returns
LogDebug ==
    /\ pc = "debug"
    /\ emitted' = Append(emitted, [level |-> DEBUG, to |-> Deliver(handlers, DEBUG)])
    /\ pc' = "idle"
    /\ outcome' = "returned"
    /\ UNCHANGED <<env, system_env_dir, fs, unwritable, handlers, callNo, args,
                   log_level, rotation, retention, log_dir, probe>>

\* other code logs a record through the handle get_logger() returns
Emit(lvl) ==
    /\ pc = "idle"
    /\ probe' = <<[level |-> lvl, to |-> Deliver(handlers, lvl)]>>
    /\ UNCHANGED <<env, system_env_dir, fs, unwritable, handlers, pc, outcome,
                   callNo, args, log_level, rotation, retention, log_dir, emitted>>

Next ==
    \/ \E a \in ArgSet : Call(a)
    \/ AddConsole
    \/ ResolveDir
    \/ Mkdir
    \/ AddCombined
    \/ AddError
    \/ LogInfo
    \/ LogDebug
    \/ \E lvl \in ProbeLevels : Emit(lvl)

Spec == Init /\ [][Next]_vars

(* ---------------------------------------------------------------------- *)
(* get_log_dir() on every LOG_DIR value up to MaxPathLen characters         *)
(* ---------------------------------------------------------------------- *)
StringsUpTo(n) == UNION {[1..k -> PathChars] : k \in 0..n}

EnvDirSet ==
    {<<>>} \cup {[n \in {"LOG_DIR"} |-> v] : v \in StringsUpTo(MaxPathLen)}

SysDirSet == {SysDir, Path(<<"a">>), Path(<<>>)}

\* setup_logger() has reached line 71 with no log_dir argument
InitDir ==
    /\ env \in EnvDirSet
    /\ system_env_dir \in SysDirSet
    /\ fs = [p \in FsPaths |-> "absent"]
    /\ unwritable = {}
    /\ handlers = <<>>
    /\ pc = "resolve"
    /\ outcome = "none"
    /\ callNo = 1
    /\ args = DefaultArgs
    /\ log_level = DefaultArgs.log_level
    /\ rotation = DefaultArgs.rotation
    /\ retention = DefaultArgs.retention
    /\ log_dir = None
    /\ emitted = <<>>
    /\ probe = <<>>

NextDir == ResolveDir

SpecDir == InitDir /\ [][NextDir]_vars

(* ---------------------------------------------------------------------- *)
(* Properties                                                              *)
(* ---------------------------------------------------------------------- *)
Called == callNo >= 1
Ended == pc = "idle" /\ outcome # "none"
Returned == pc = "idle" /\ outcome = "returned"

Kinds(h) == [i \in DOMAIN h |-> h[i].kind]
Has(kind) == \E i \in DOMAIN handlers : handlers[i].kind = kind
OwnSinksOnly == \A i \in DOMAIN handlers : handlers[i].call = callNo

ConsolePart == IF args.enable_console THEN <<"stderr">> ELSE <<>>
FilePart == IF args.enable_file THEN <<"valuecell", "error">> ELSE <<>>
RequestedKinds == ConsolePart \o FilePart

\* C1: after a setup_logger() call that returns normally the registry holds
\* exactly the sinks that call asked for, in the order it adds them, each one
\* once: the console sink iff enable_console, the combined and the error file
\* sink iff enable_file, and no handler of an earlier call or of the start-up
\* default.
C1_ExactlyRequestedSinks ==
    Returned => /\ Kinds(handlers) = RequestedKinds
                /\ OwnSinksOnly

\* a second call that asks for the console only, after a first call that
\* made a directory and left a file sink behind
C1_Witness ==
    /\ Returned
    /\ callNo = 2
    /\ args.enable_console /\ ~args.enable_file
    /\ unwritable = {"error"}
    /\ \E p \in FsPaths : fs[p] = "created"
    /\ Kinds(handlers) = <<"stderr">>

\* C2 as stated: when a call ends, normally or by an exception, either all the
\* sinks it asked for are registered or none of them is.
C2_AllOrNothing ==
    Ended => \/ Kinds(handlers) = RequestedKinds
             \/ handlers = <<>>

\* the sinks a call has registered when it ends with the given outcome
KindsAtEnd(o) ==
    CASE o = "returned" -> RequestedKinds
      [] o = "raised_console" -> <<>>
      [] o = "raised_mkdir" -> ConsolePart
      [] o = "raised_combined" -> ConsolePart
      [] o = "raised_error" -> ConsolePart \o <<"valuecell">>

\* C2 amended: registration is reset-then-rebuild. A call that returns
\* normally leaves exactly the sinks it asked for; a call that fails leaves
\* exactly the sinks it registered before the failing step (the console sink,
\* if asked for, when directory creation or the combined sink fails; that and
\* the combined sink when the error sink fails); no earlier sink remains.
C2_ResetThenRebuild ==
    Ended => /\ Kinds(handlers) = KindsAtEnd(outcome)
             /\ OwnSinksOnly

\* directory creation raised with both flags on: the console sink stays
C2_Witness ==
    /\ Ended
    /\ outcome = "raised_mkdir"
    /\ args.enable_console /\ args.enable_file
    /\ Kinds(handlers) = <<"stderr">>

FileSinkDirsExist ==
    \A i \in DOMAIN handlers :
        handlers[i].dir # None => IsDir(fs, handlers[i].dir[1])

\* C3: whenever a file sink is registered, also between the steps of
\* setup_logger(), its directory exists; after a call with enable_file that
\* returns normally the directory exists; and mkdir on a directory that is
\* already there changes nothing and goes on to register the sinks.
C3_DirBeforeFileSink ==
    /\ [](FileSinkDirsExist)
    /\ []((Returned /\ args.enable_file) => IsDir(fs, log_dir[1]))
    /\ [][(pc = "mkdir" /\ IsDir(fs, log_dir[1]))
            => (fs' = fs /\ pc' = "combined" /\ outcome' = outcome)]_vars

\* both file sinks registered in a directory that was there before the call
C3_Witness ==
    /\ Returned
    /\ args.enable_file
    /\ fs[log_dir[1]] = "dir"
    /\ Has("valuecell") /\ Has("error")

LogDirSet == "LOG_DIR" \in DOMAIN env /\ env["LOG_DIR"] # <<>>

\* C4 as stated: get_log_dir() returns <system env dir>/logs if LOG_DIR is
\* unset or empty, and otherwise a path whose text is exactly LOG_DIR.
C4_ExactValue ==
    pc = "mkdir" =>
        /\ Len(log_dir) = 1
        /\ IF LogDirSet
           THEN Str(log_dir[1]) = env["LOG_DIR"]
           ELSE log_dir[1] = Div(system_env_dir, Logs)

\* v is written the way pathlib writes a path: no empty component (but for
\* an exactly doubled leading slash), no "." component, no trailing slash
Normalised(v) ==
    LET n == Len(v)
    IN  /\ \A i \in 1..(n - 1) :
              (v[i] = "/" /\ v[i + 1] = "/") => (i = 1 /\ (n = 2 \/ v[3] # "/"))
        /\ v[n] = "/" => v \in {<<"/">>, <<"/", "/">>}
        /\ \A i \in 1..n :
              (/\ v[i] = "."
               /\ (i = 1 \/ v[i - 1] = "/")
               /\ (i = n \/ v[i + 1] = "/")) => v = <<".">>

\* C4 amended: get_log_dir() always returns a path: <system env dir>/logs if
\* LOG_DIR is unset or empty, and otherwise Path(LOG_DIR), which is LOG_DIR
\* in pathlib's normal form; its text equals LOG_DIR exactly when LOG_DIR is
\* already written in that form.
C4_NormalisedValue ==
    pc = "mkdir" =>
        /\ Len(log_dir) = 1
        /\ IF LogDirSet
           THEN /\ Normalised(Str(log_dir[1]))
                /\ Path(Str(log_dir[1])) = log_dir[1]
                /\ (Str(log_dir[1]) = env["LOG_DIR"]) <=> Normalised(env["LOG_DIR"])
                /\ (log_dir[1].root # <<>>) <=> (env["LOG_DIR"][1] = "/")
           ELSE log_dir[1] = Div(system_env_dir, Logs)

\* LOG_DIR=a/ resolves to the path a
C4_Witness ==
    /\ pc = "mkdir"
    /\ "LOG_DIR" \in DOMAIN env
    /\ env["LOG_DIR"] = <<"a", "/">>
    /\ Str(log_dir[1]) = <<"a">>

\* what the caller passed, or the environment's value when the variable is set
Effective(name, passed) == IF name \in DOMAIN env THEN env[name] ELSE passed

\* C5: once setup_logger() has read its configuration, rotation and retention
\* are LOG_ROTATION and LOG_RETENTION whenever these are set and the caller's
\* arguments otherwise, and the level is LOG_LEVEL whenever it is set (even to
\* the empty string) and the caller's argument otherwise, upper-cased: of the
\* same length, with no lower-case letter, debug giving DEBUG and info INFO.
C5_EnvOverridesArguments ==
    Called =>
        /\ rotation = Effective("LOG_ROTATION", args.rotation)
        /\ retention = Effective("LOG_RETENTION", args.retention)
        /\ LET raw == Effective("LOG_LEVEL", args.log_level)
           IN  /\ Len(log_level) = Len(raw)
               /\ \A i \in DOMAIN log_level :
                     /\ \A k \in DOMAIN LowerLetters : log_level[i] # LowerLetters[k]
                     /\ \/ log_level[i] = raw[i]
                        \/ \E k \in DOMAIN LowerLetters :
                              raw[i] = LowerLetters[k] /\ log_level[i] = UpperLetters[k]
               /\ raw = <<"d", "e", "b", "u", "g">> => log_level = DEBUG
               /\ raw = <<"i", "n", "f", "o">> => log_level = INFO
               /\ raw = ERROR => log_level = ERROR

\* LOG_LEVEL=debug and LOG_ROTATION override the arguments, LOG_RETENTION is
\* unset, and the sinks are registered with the resulting values
C5_Witness ==
    /\ Returned
    /\ args.enable_console /\ args.enable_file
    /\ "LOG_LEVEL" \in DOMAIN env /\ env["LOG_LEVEL"] = <<"d", "e", "b", "u", "g">>
    /\ "LOG_ROTATION" \in DOMAIN env
    /\ "LOG_RETENTION" \notin DOMAIN env
    /\ handlers[1].level = DEBUG
    /\ handlers[2].rotation = "1 day"
    /\ handlers[2].retention = "30 days"

NoSinkRequested == Called /\ ~args.enable_console /\ ~args.enable_file

\* C6: a call with enable_console and enable_file both false never raises,
\* whatever the level, rotation, retention, compression and environment are,
\* leaves the registry empty when it returns, and no step of it changes the
\* filesystem.
C6_NothingRequested ==
    /\ [](NoSinkRequested => /\ outcome \in {"none", "returned"}
                             /\ handlers = <<>>)
    /\ [][(~args'.enable_console /\ ~args'.enable_file) => fs' = fs]_vars

\* a second call with both flags off, a level no sink would accept and a
\* compression format no file sink would accept, has returned
C6_Witness ==
    /\ Returned
    /\ callNo = 2
    /\ NoSinkRequested
    /\ log_level \notin KnownLevels
    /\ args.compression \notin CompressionFormats
    /\ handlers = <<>>

FileKinds(to) == {s.kind : s \in to} \cap {"valuecell", "error"}

\* C7: after a call with enable_file that returned normally, a record logged
\* at ERROR or above reaches both file sinks and a record from DEBUG up to
\* below ERROR reaches the combined file sink and not the error file sink,
\* whatever the effective log level is.
C7_FileSinkLevels ==
    (Returned /\ args.enable_file /\ probe # <<>>) =>
        /\ \A s \in probe[1].to : s.call = callNo
        /\ IF LevelNo(probe[1].level) >= LevelNo(ERROR)
           THEN FileKinds(probe[1].to) = {"valuecell", "error"}
           ELSE /\ LevelNo(probe[1].level) >= LevelNo(DEBUG)
                /\ FileKinds(probe[1].to) = {"valuecell"}

\* with an effective level of ERROR, an INFO record passes the console by
\* and still reaches the combined file
C7_Witness ==
    /\ Returned
    /\ args.enable_console /\ args.enable_file
    /\ log_level = ERROR
    /\ probe # <<>>
    /\ probe[1].level = INFO
    /\ {s.kind : s \in probe[1].to} = {"valuecell"}

\* the sinks of the finished call that take a record of level lvl
Takers(lvl) ==
    (IF args.enable_console /\ LevelNo(log_level) <= LevelNo(lvl)
     THEN {"stderr"} ELSE {})
    \cup (IF args.enable_file /\ LevelNo(lvl) < LevelNo(ERROR)
          THEN {"valuecell"} ELSE {})

\* C8: a call that returns normally has logged one INFO record iff
\* enable_file, then one DEBUG record, and nothing else; each was handed to
\* exactly the sinks of the finished configuration whose level admits it,
\* never to a sink of an earlier configuration.
C8_Announcements ==
    Returned =>
        /\ [i \in DOMAIN emitted |-> emitted[i].level]
              = (IF args.enable_file THEN <<INFO>> ELSE <<>>) \o <<DEBUG>>
        /\ \A i \in DOMAIN emitted :
              /\ {s.kind : s \in emitted[i].to} = Takers(emitted[i].level)
              /\ emitted[i].to \subseteq {handlers[j] : j \in DOMAIN handlers}
              /\ \A s \in emitted[i].to : s.call = callNo

\* second call, console at ERROR: both records go to the combined file only
C8_Witness ==
    /\ Returned
    /\ callNo = 2
    /\ args.enable_console /\ args.enable_file
    /\ log_level = ERROR
    /\ Len(emitted) = 2
    /\ {s.kind : s \in emitted[1].to} = {"valuecell"}

MkdirFailed == Ended /\ args.enable_file /\ outcome # "raised_console"
               /\ MkdirRaises(fs, log_dir[1])

\* C9 as stated: when a call ends, normally or by an exception, the registry
\* never holds exactly one of the two file sinks; and if directory creation
\* fails, the call raises, no file sink is registered and no announcement is
\* logged.
C9_FileSinksPaired ==
    /\ Ended => (Has("valuecell") <=> Has("error"))
    /\ MkdirFailed => /\ outcome = "raised_mkdir"
                      /\ ~Has("valuecell") /\ ~Has("error")
                      /\ emitted = <<>>

\* C9 amended: when a call ends the error file sink is never registered
\* without the combined one; the combined one is registered alone exactly
\* when registering the error sink raised; a call that raises logs no
\* announcement; and if directory creation fails, the call raises, no file
\* sink is registered and no announcement is logged.
C9_ErrorSinkNeverAlone ==
    /\ Ended => /\ Has("error") => Has("valuecell")
                /\ (Has("valuecell") /\ ~Has("error")) <=> outcome = "raised_error"
                /\ outcome # "returned" => emitted = <<>>
    /\ MkdirFailed => /\ outcome = "raised_mkdir"
                      /\ ~Has("valuecell") /\ ~Has("error")
                      /\ emitted = <<>>

\* the error file cannot be opened: the combined sink stays registered alone
C9_Witness ==
    /\ Ended
    /\ outcome = "raised_error"
    /\ Has("valuecell") /\ ~Has("error")
    /\ emitted = <<>>

DirResolved ==
    \/ pc \in {"mkdir", "combined", "error", "info", "debug"}
    \/ Ended /\ outcome # "raised_console"

\* C10: with enable_file, the directory is the log_dir argument when one is
\* passed, LOG_DIR being set or not, and get_log_dir()'s result otherwise; the
\* file sinks are opened there and only that directory is ever made; without
\* enable_file nothing is resolved and the filesystem stays as it is.
C10_DirectoryChoice ==
    /\ []((Called /\ args.enable_file /\ DirResolved) =>
            /\ log_dir = IF args.log_dir # None THEN args.log_dir
                         ELSE IF LogDirSet THEN <<Path(env["LOG_DIR"])>>
                         ELSE <<Div(system_env_dir, Logs)>>
            /\ \A i \in DOMAIN handlers :
                  handlers[i].kind # "stderr" => handlers[i].dir = log_dir)
    /\ []((Called /\ ~args.enable_file) => log_dir = args.log_dir)
    /\ [][fs' # fs => /\ args.enable_file
                      /\ \A p \in FsPaths : fs'[p] # fs[p] => <<p>> = log_dir]_vars

\* LOG_DIR is set, a log_dir argument is passed: the argument's directory is
\* made and used, LOG_DIR's is not
C10_Witness ==
    /\ Returned
    /\ args.enable_file
    /\ LogDirSet
    /\ args.log_dir = <<DirB>>
    /\ fs[DirB] = "created"
    /\ fs[DirA] = "absent"
    /\ handlers[Len(handlers)].dir = <<DirB>>

====
